---- MODULE Spec2Model ----
(***************************************************************************)
(* Model of deploy.sh: the sequential `set -e` deployment pipeline         *)
(* (check_prerequisites, create_directories, backup_current, build_images, *)
(* deploy_services, health_check, cleanup / rollback).                     *)
(*                                                                         *)
(* The host is part of the state: installed tools, the two required files, *)
(* the directory tree, the backup directory (kept in modification-time     *)
(* order, which is what `ls -t` sorts by), the running stack and the       *)
(* wall clock that `date` reads.  Every external command either succeeds   *)
(* or fails with some non-zero status; under `set -e` a failing simple     *)
(* command ends the script with that status.                               *)
(***************************************************************************)
EXTENDS Integers, Sequences, FiniteSets, TLC

\* ---- bounds ----
MaxClock == 7      \* wall-clock seconds 1..MaxClock are observed by `date`
MaxStatus == 2     \* a failing command returns a status in 1..MaxStatus

\* ---- program constants ----
TailStart == 6     \* tail -n +6 : first listed line that is handed to rm

VARIABLES pc, exitCode, ENVIRONMENT, tools, files, dirs, backups,
          BACKUP_NAME, written, now, stack, report, verdict, trace, pre

\* AuthProvider: React state (user, token, isLoading), localStorage, the
\* position of initAuth with the values its closure holds, and whether the
\* last of login/logout called was logout
VARIABLES user, token, isLoading, localStorage, initAuth, closure, loggedOut

deployVars == <<pc, exitCode, ENVIRONMENT, tools, files, dirs, backups,
                BACKUP_NAME, written, now, stack, report, verdict, trace, pre>>

authVars == <<user, token, isLoading, localStorage, initAuth, closure,
              loggedOut>>

vars == <<deployVars, authVars>>

\* exit statuses of an external command: 0 is success
Status == 0..MaxStatus

COMPOSE_FILE == "docker-compose.production.yml"
ENV_FILE == ".env.production"
BACKUP_DIR == <<"backups">>
LOG_DIR == <<"logs">>

\* the five mkdir -p targets of create_directories, in order
DirTargets ==
    << BACKUP_DIR, LOG_DIR \o <<"nginx">>, LOG_DIR \o <<"main-api">>,
       LOG_DIR \o <<"scraper-api">>, <<"ssl">> >>

\* the three endpoints of health_check, in probing order
Services == <<"main-api", "scraper-api", "frontend">>

Environments == {"staging", "production"}

\* mkdir -p: the path and every ancestor exist afterwards, nothing is removed
MkdirP(fs, p) == fs \cup { SubSeq(p, 1, i) : i \in 1..Len(p) }

RECURSIVE MkdirAll(_, _, _)
\* the first k mkdir -p commands of create_directories applied in order
MkdirAll(fs, targets, k) ==
    IF k = 0 THEN fs
    ELSE MkdirP(MkdirAll(fs, targets, k - 1), targets[k])

AllPaths == MkdirAll({}, DirTargets, Len(DirTargets))

\* a directory tree is closed under taking parents
TreeClosed(fs) == \A p \in fs : \A i \in 1..Len(p) : SubSeq(p, 1, i) \in fs

\* ---- the backup directory ----
\* backups is the listing of $BACKUP_DIR: the ids of the backup_<id>
\* directories ordered by modification time, oldest first.  written is
\* what the current run has put into its own backup_<id> directory.
Range(s) == { s[i] : i \in DOMAIN s }

Ids(b) == Range(b)

Without(b, names) ==
    LET keep(n) == n \notin names IN SelectSeq(b, keep)

\* a directory whose entries change becomes the newest of the listing
Touch(b, t) == Append(Without(b, {t}), t)

\* mkdir -p "$BACKUP_DIR/$BACKUP_NAME": a new directory is the newest one,
\* an existing one is left as it is
MkBackupDir(b, t) == IF t \in Ids(b) THEN b ELSE Append(b, t)

\* docker ps -a > .../docker_ps.txt and cp "$ENV_FILE" .../ : the file is
\* written into backup_<t>
WriteInto(b, t) == Touch(b, t)

NothingWritten == [dir |-> FALSE, ps |-> FALSE, env |-> FALSE]

\* ls -tr : oldest first
LsTReversed(b) == b

\* ls -t : names, newest modification time first
LsT(b) == [ i \in 1..Len(b) |-> b[Len(b) + 1 - i] ]

\* tail that also drops the n-th line
TailAfter(s, n) == SubSeq(s, n + 1, Len(s))

\* tail -n +n : the lines from the n-th on
TailFrom(s, n) == SubSeq(s, n, Len(s))

\* ls -t | tail -n +6 : the names handed to xargs rm -rf
PruneVictims(b) == Range(TailFrom(LsT(b), TailStart))

\* ---- check_prerequisites ----
\* a check_prerequisites that never tests for the compose file
PrereqStatusNoComposeFile(t, f) ==
    IF ~t.docker THEN 1
    ELSE IF ~t.compose THEN 1
    ELSE IF ~f.env THEN 1
    ELSE 0

\* exit status of check_prerequisites: 0 = falls through, 1 = exit 1
PrereqStatus(t, f) ==
    IF ~t.docker THEN 1
    ELSE IF ~t.compose THEN 1
    ELSE IF ~f.env THEN 1
    ELSE IF ~f.compose THEN 1
    ELSE 0

\* ---- health_check ----
RECURSIVE ProbeAll(_, _)
\* a health_check that goes on to the next curl after a failing one
ProbeAll(answers, i) ==
    IF i > Len(Services) THEN <<>>
    ELSE <<[svc |-> Services[i], ok |-> answers[Services[i]]]>>
           \o ProbeAll(answers, i + 1)

RECURSIVE Probe(_, _)
\* the probes issued, in order, when the endpoints answer as in `answers`:
\* health_check returns 1 at the first failing curl
Probe(answers, i) ==
    IF i > Len(Services) THEN <<>>
    ELSE IF answers[Services[i]]
         THEN <<[svc |-> Services[i], ok |-> TRUE]>> \o Probe(answers, i + 1)
         ELSE <<[svc |-> Services[i], ok |-> FALSE]>>

\* a health_check whose status is that of its first curl only
HealthStatusFirstOnly(probes) ==
    IF ~probes[1].ok THEN 1 ELSE 0

\* return status of health_check
HealthStatus(probes) ==
    IF \E i \in DOMAIN probes : ~probes[i].ok THEN 1 ELSE 0

\* ---- script control ----
Ev(c, r) == [cmd |-> c, rc |-> r]

ProbeEvents(probes) ==
    [ i \in DOMAIN probes |->
        Ev("curl:" \o probes[i].svc, IF probes[i].ok THEN 0 ELSE 1) ]

Exit(code) == pc' = "exited" /\ exitCode' = code

Goto(label) == pc' = label /\ exitCode' = exitCode

\* a script without set -e goes on after a failing command
SetEOff(rc, next) == Goto(next)

\* set -e (line 6): a simple command that fails ends the script with the
\* command's status, otherwise the next command runs
SetE(rc, next) == IF rc = 0 THEN Goto(next) ELSE Exit(rc)

Log(events) == trace' = trace \o events

Snapshot(s, d, b) == [stack |-> s, dirs |-> d, backups |-> b]

\* ---- AuthProvider values ----
\* null is the empty sequence, a value v is <<v>>
Null == <<>>
Some(v) == <<v>>

Tokens == {"t1", "t2"}
Users == [name : {"ann", "bob"}, full_name : {"", "Full Name"}]

\* JSON.stringify of a user object, and a stored string that is not JSON
Stringify(u) == [text |-> "json", obj |-> u]
Garbage == [text |-> "garbage", obj |-> [name |-> "", full_name |-> ""]]

\* JSON.parse: throws on anything that is not JSON
ParseThrows(str) == str.text # "json"
Parse(str) == str.obj

\* answers of apiService.getMe: a rejected promise, or a body whose
\* full_name may be empty
MeAnswers == {"rejected", "", "Full Name"}

\* { ...parsed, full_name: me.full_name, ... } (line 31)
Hydrate(parsed, full_name) == [parsed EXCEPT !.full_name = full_name]

NoClosure == [storedToken |-> Null, parsed |-> Null]

AuthMounted ==
    /\ user = Null
    /\ token = Null
    /\ isLoading = TRUE
    /\ initAuth = "mount"
    /\ closure = NoClosure
    /\ loggedOut = FALSE

AuthSame == UNCHANGED authVars

HostSame == UNCHANGED <<ENVIRONMENT, tools, files, pre>> /\ AuthSame

Init ==
    /\ AuthMounted
    /\ localStorage = [auth_token |-> Null, user_data |-> Null]
    /\ pc = "check_prerequisites"
    /\ exitCode = 0
    /\ ENVIRONMENT \in Environments
    /\ tools \in [docker : BOOLEAN, compose : BOOLEAN]
    /\ files \in [env : BOOLEAN, compose : BOOLEAN]
    /\ dirs \in { d \in SUBSET AllPaths : TreeClosed(d) }
    /\ backups = <<>>
    /\ BACKUP_NAME = 0
    /\ written = NothingWritten
    /\ now = 1
    /\ stack \in {"none", "old"}
    /\ report = <<>>
    /\ verdict = "none"
    /\ trace = <<>>
    /\ pre = Snapshot(stack, dirs, backups)

\* check_prerequisites (lines 35-63): explicit exit 1 on the first miss
CheckPrerequisites ==
    /\ pc = "check_prerequisites"
    /\ Log(<<Ev("check_prerequisites", PrereqStatus(tools, files))>>)
    /\ IF PrereqStatus(tools, files) = 0
       THEN Goto("create_directories")
       ELSE Exit(PrereqStatus(tools, files))
    /\ HostSame
    /\ UNCHANGED <<dirs, backups, BACKUP_NAME, written, now, stack, report,
                   verdict>>

\* main that calls build_images right after create_directories
CreateDirectoriesThenBuild ==
    /\ pc = "create_directories"
    /\ \E k \in 0..Len(DirTargets) :
         /\ dirs' = MkdirAll(dirs, DirTargets, k)
         /\ IF k = Len(DirTargets)
            THEN /\ Log(<<Ev("create_directories", 0)>>)
                 /\ Goto("build_images")
            ELSE /\ DirTargets[k + 1] \notin MkdirAll(dirs, DirTargets, k)
                 /\ Log(<<Ev("create_directories", 1)>>)
                 /\ Exit(1)
    /\ HostSame
    /\ UNCHANGED <<backups, BACKUP_NAME, written, now, stack, report, verdict>>

\* a create_directories that uses mkdir without -p, which fails on a
\* directory that is already there
CreateDirectoriesNoP ==
    /\ pc = "create_directories"
    /\ \E k \in 0..Len(DirTargets) :
         /\ dirs' = MkdirAll(dirs, DirTargets, k)
         /\ IF k = Len(DirTargets)
            THEN /\ Log(<<Ev("create_directories", 0)>>)
                 /\ Goto("backup_current")
            ELSE /\ Log(<<Ev("create_directories", 1)>>)
                 /\ Exit(1)
    /\ HostSame
    /\ UNCHANGED <<backups, BACKUP_NAME, written, now, stack, report, verdict>>

\* create_directories (lines 66-76): k of the five mkdir -p succeed; a
\* mkdir -p can only fail on a directory that does not exist yet, and the
\* first failure ends the script
CreateDirectories ==
    /\ pc = "create_directories"
    /\ \E k \in 0..Len(DirTargets) :
         /\ dirs' = MkdirAll(dirs, DirTargets, k)
         /\ IF k = Len(DirTargets)
            THEN /\ Log(<<Ev("create_directories", 0)>>)
                 /\ Goto("backup_current")
            ELSE /\ DirTargets[k + 1] \notin MkdirAll(dirs, DirTargets, k)
                 /\ Log(<<Ev("create_directories", 1)>>)
                 /\ Exit(1)
    /\ HostSame
    /\ UNCHANGED <<backups, BACKUP_NAME, written, now, stack, report, verdict>>

\* backup_current, lines 82-83: BACKUP_NAME from date at second
\* granularity, then mkdir -p, which cannot fail on an existing directory
BackupMkdir ==
    /\ pc = "backup_current"
    /\ \E t \in now..MaxClock, rc \in {0, 1} :
         /\ now' = t
         /\ BACKUP_NAME' = t
         /\ rc # 0 => t \notin Ids(backups)
         /\ backups' = IF rc = 0 THEN MkBackupDir(backups, t) ELSE backups
         /\ written' = [written EXCEPT !.dir = (rc = 0)]
         /\ Log(<<Ev("backup_mkdir", rc)>>)
         /\ SetE(rc, "backup_ps")
    /\ HostSame
    /\ UNCHANGED <<dirs, stack, report, verdict>>

\* backup_current, lines 86-89: the listing is written only when
\* docker ps -q prints something (the condition itself never ends the script)
BackupPs ==
    /\ pc = "backup_ps"
    /\ \E listed \in BOOLEAN, rc \in Status :
         IF listed
         THEN /\ backups' = IF rc = 0 THEN WriteInto(backups, BACKUP_NAME)
                                      ELSE backups
              /\ written' = [written EXCEPT !.ps = (rc = 0)]
              /\ Log(<<Ev("backup_ps", rc)>>)
              /\ SetE(rc, "backup_cp")
         ELSE /\ rc = 0
              /\ UNCHANGED <<backups, written, trace>>
              /\ Goto("backup_cp")
    /\ HostSame
    /\ UNCHANGED <<dirs, BACKUP_NAME, now, stack, report, verdict>>

\* backup_current, lines 92-95: copy of the environment file
BackupCp ==
    /\ pc = "backup_cp"
    /\ \E rc \in {0, 1} :
         IF files.env
         THEN /\ backups' = IF rc = 0 THEN WriteInto(backups, BACKUP_NAME)
                                      ELSE backups
              /\ written' = [written EXCEPT !.env = (rc = 0)]
              /\ Log(<<Ev("backup_cp", rc)>>)
              /\ SetE(rc, "build_images")
         ELSE /\ rc = 0
              /\ UNCHANGED <<backups, written, trace>>
              /\ Goto("build_images")
    /\ HostSame
    /\ UNCHANGED <<dirs, BACKUP_NAME, now, stack, report, verdict>>

\* build_images (lines 101-107)
BuildImages ==
    /\ pc = "build_images"
    /\ \E rc \in Status :
         /\ Log(<<Ev("build", rc)>>)
         /\ SetE(rc, "deploy_down")
    /\ HostSame
    /\ UNCHANGED <<dirs, backups, BACKUP_NAME, written, now, stack, report,
                   verdict>>

\* what a failing docker-compose down / up -d can leave running
AfterFailedDown(s) == {s, "partial", "none"}
AfterFailedUp(s) == {s, "partial"}

\* a deploy_services that jumps to the rollback branch when down fails
ComposeDownOrRollback ==
    /\ pc = "deploy_down"
    /\ \E rc \in Status :
         /\ stack' \in IF rc = 0 THEN {"none"} ELSE AfterFailedDown(stack)
         /\ Log(<<Ev("down", rc)>>)
         /\ Goto(IF rc = 0 THEN "deploy_up" ELSE "rollback")
    /\ HostSame
    /\ UNCHANGED <<dirs, backups, BACKUP_NAME, written, now, report, verdict>>

\* deploy_services, line 115: docker-compose down
ComposeDown ==
    /\ pc = "deploy_down"
    /\ \E rc \in Status :
         /\ stack' \in IF rc = 0 THEN {"none"} ELSE AfterFailedDown(stack)
         /\ Log(<<Ev("down", rc)>>)
         /\ SetE(rc, "deploy_up")
    /\ HostSame
    /\ UNCHANGED <<dirs, backups, BACKUP_NAME, written, now, report, verdict>>

\* a deploy_services without the sleep after up -d
ComposeUpNoSleep ==
    /\ pc = "deploy_up"
    /\ \E rc \in Status :
         /\ stack' \in IF rc = 0 THEN {"new"} ELSE AfterFailedUp(stack)
         /\ Log(<<Ev("up", rc)>>)
         /\ SetE(rc, "health_check")
    /\ HostSame
    /\ UNCHANGED <<dirs, backups, BACKUP_NAME, written, now, report, verdict>>

\* deploy_services, line 119: docker-compose up -d
ComposeUp ==
    /\ pc = "deploy_up"
    /\ \E rc \in Status :
         /\ stack' \in IF rc = 0 THEN {"new"} ELSE AfterFailedUp(stack)
         /\ Log(<<Ev("up", rc)>>)
         /\ SetE(rc, "deploy_sleep")
    /\ HostSame
    /\ UNCHANGED <<dirs, backups, BACKUP_NAME, written, now, report, verdict>>

\* a settle step that never returns
SettleWaitsForever ==
    /\ pc = "deploy_sleep"
    /\ UNCHANGED vars

\* deploy_services, line 123: sleep 10
Settle ==
    /\ pc = "deploy_sleep"
    /\ Log(<<Ev("sleep", 0)>>)
    /\ Goto("health_check")
    /\ HostSame
    /\ UNCHANGED <<dirs, backups, BACKUP_NAME, written, now, stack, report,
                   verdict>>

\* a main that calls cleanup whatever health_check returned
HealthCheckThenCleanup ==
    /\ pc = "health_check"
    /\ \E answers \in [Range(Services) -> BOOLEAN] :
         LET probes == Probe(answers, 1) IN
         /\ report' = probes
         /\ Log(ProbeEvents(probes))
         /\ verdict' = IF HealthStatus(probes) = 0 THEN "healthy"
                                                   ELSE "unhealthy"
         /\ Goto("cleanup")
    /\ HostSame
    /\ UNCHANGED <<dirs, backups, BACKUP_NAME, written, now, stack>>

\* if health_check (lines 129-157, 186): as an if-condition its failure
\* selects the else-branch instead of ending the script
HealthCheck ==
    /\ pc = "health_check"
    /\ \E answers \in [Range(Services) -> BOOLEAN] :
         LET probes == Probe(answers, 1) IN
         /\ report' = probes
         /\ Log(ProbeEvents(probes))
         /\ IF HealthStatus(probes) = 0
            THEN verdict' = "healthy" /\ Goto("cleanup")
            ELSE verdict' = "unhealthy" /\ Goto("rollback")
    /\ HostSame
    /\ UNCHANGED <<dirs, backups, BACKUP_NAME, written, now, stack>>

\* cleanup, line 163: docker image prune -f; cleanup is called from the
\* then-branch, where set -e is in force
ImagePrune ==
    /\ pc = "cleanup"
    /\ \E rc \in Status :
         /\ Log(<<Ev("image_prune", rc)>>)
         /\ SetE(rc, "cleanup_backups")
    /\ HostSame
    /\ UNCHANGED <<dirs, backups, BACKUP_NAME, written, now, stack, report,
                   verdict>>

\* cleanup, lines 166-170: ls -t | tail -n +6 | xargs -r rm -rf; the status
\* of the pipeline is that of xargs, which does not run rm without input
PruneBackups ==
    /\ pc = "cleanup_backups"
    /\ IF BACKUP_DIR \in dirs
       THEN \E rc \in Status, gone \in SUBSET PruneVictims(backups) :
              /\ rc = 0 => gone = PruneVictims(backups)
              /\ rc # 0 => gone # PruneVictims(backups)
              /\ backups' = Without(backups, gone)
              /\ Log(<<Ev("rm_backups", rc)>>)
              /\ SetE(rc, "show")
       ELSE /\ UNCHANGED <<backups, trace>>
            /\ Goto("show")
    /\ HostSame
    /\ UNCHANGED <<dirs, BACKUP_NAME, written, now, stack, report, verdict>>

\* a rollback that brings the previous stack back up after the teardown
RollbackAndRestore ==
    /\ pc = "rollback"
    /\ \E rc \in Status :
         /\ stack' \in IF rc = 0 THEN {"old"} ELSE AfterFailedDown(stack)
         /\ Log(<<Ev("rollback_down", rc)>>)
         /\ IF rc = 0 THEN Exit(1) ELSE Exit(rc)
    /\ HostSame
    /\ UNCHANGED <<dirs, backups, BACKUP_NAME, written, now, report, verdict>>

\* else-branch of main (lines 190-192): docker-compose down, then exit 1
Rollback ==
    /\ pc = "rollback"
    /\ \E rc \in Status :
         /\ stack' \in IF rc = 0 THEN {"none"} ELSE AfterFailedDown(stack)
         /\ Log(<<Ev("rollback_down", rc)>>)
         /\ IF rc = 0 THEN Exit(1) ELSE Exit(rc)
    /\ HostSame
    /\ UNCHANGED <<dirs, backups, BACKUP_NAME, written, now, report, verdict>>

\* lines 195-199: docker-compose ps, then the last print_status
ShowContainers ==
    /\ pc = "show"
    /\ \E rc \in Status :
         /\ Log(<<Ev("ps", rc)>>)
         /\ SetE(rc, "exited")
    /\ HostSame
    /\ UNCHANGED <<dirs, backups, BACKUP_NAME, written, now, stack, report,
                   verdict>>

\* the script is started again (line 203) on the host as the last run left
\* it; tools and the two files may have changed in between
Invoke ==
    /\ pc = "exited"
    /\ pc' = "check_prerequisites"
    /\ exitCode' = 0
    /\ ENVIRONMENT' \in Environments
    /\ tools' \in [docker : BOOLEAN, compose : BOOLEAN]
    /\ files' \in [env : BOOLEAN, compose : BOOLEAN]
    /\ stack' = IF stack = "new" THEN "old" ELSE stack
    /\ BACKUP_NAME' = 0
    /\ written' = NothingWritten
    /\ report' = <<>>
    /\ verdict' = "none"
    /\ trace' = <<>>
    /\ pre' = Snapshot(stack', dirs, backups)
    /\ UNCHANGED <<dirs, backups, now>>
    /\ AuthSame

Next ==
    \/ CheckPrerequisites
    \/ CreateDirectories
    \/ BackupMkdir
    \/ BackupPs
    \/ BackupCp
    \/ BuildImages
    \/ ComposeDown
    \/ ComposeUp
    \/ Settle
    \/ HealthCheck
    \/ ImagePrune
    \/ PruneBackups
    \/ Rollback
    \/ ShowContainers
    \/ Invoke

Spec == Init /\ [][Next]_vars

\* one invocation of the script, every command of which returns
RunNext ==
    \/ CheckPrerequisites
    \/ CreateDirectories
    \/ BackupMkdir
    \/ BackupPs
    \/ BackupCp
    \/ BuildImages
    \/ ComposeDown
    \/ ComposeUp
    \/ Settle
    \/ HealthCheck
    \/ ImagePrune
    \/ PruneBackups
    \/ Rollback
    \/ ShowContainers

LiveSpec == Init /\ [][RunNext]_vars /\ WF_vars(RunNext)

\* ---- AuthProvider (src/unnamed/part_001) ----
\* the deployment script is not running while the page is used
DeployIdle ==
    /\ pc = "exited"
    /\ exitCode = 0
    /\ ENVIRONMENT = "staging"
    /\ tools = [docker |-> TRUE, compose |-> TRUE]
    /\ files = [env |-> TRUE, compose |-> TRUE]
    /\ dirs = AllPaths
    /\ backups = <<>>
    /\ BACKUP_NAME = 0
    /\ written = NothingWritten
    /\ now = 1
    /\ stack = "new"
    /\ report = <<>>
    /\ verdict = "none"
    /\ trace = <<>>
    /\ pre = Snapshot("new", AllPaths, <<>>)

\* the provider has just been constructed; localStorage holds whatever an
\* earlier session left
AuthInit ==
    /\ DeployIdle
    /\ AuthMounted
    /\ localStorage \in
         [auth_token : {Null} \cup { Some(t) : t \in Tokens },
          user_data : {Null, Some(Garbage)}
                        \cup { Some(Stringify(u)) : u \in Users }]

\* initAuth up to the await (lines 15-29), and its catch/finally when
\* JSON.parse throws or nothing is stored (lines 39-46)
InitAuthStart ==
    /\ initAuth = "mount"
    /\ LET storedToken == localStorage.auth_token
           storedUser == localStorage.user_data
       IN  IF storedToken # Null /\ storedUser # Null
           THEN /\ token' = storedToken
                /\ IF ParseThrows(storedUser[1])
                   THEN /\ localStorage' = [auth_token |-> Null,
                                            user_data |-> Null]
                        /\ isLoading' = FALSE
                        /\ initAuth' = "done"
                        /\ UNCHANGED <<user, closure>>
                   ELSE /\ user' = Some(Parse(storedUser[1]))
                        /\ closure' = [storedToken |-> storedToken,
                                       parsed |-> Some(Parse(storedUser[1]))]
                        /\ initAuth' = "awaiting"
                        /\ UNCHANGED <<localStorage, isLoading>>
           ELSE /\ isLoading' = FALSE
                /\ initAuth' = "done"
                /\ UNCHANGED <<user, token, localStorage, closure>>
    /\ UNCHANGED loggedOut
    /\ UNCHANGED deployVars

\* the pending apiService.getMe settles and initAuth resumes (lines 30-37,
\* 44-46); a throwing setItem is swallowed by the inner catch after setUser
InitAuthResume ==
    /\ initAuth = "awaiting"
    /\ \E me \in MeAnswers, quota \in BOOLEAN :
         IF me # "rejected" /\ me # ""
         THEN LET hydrated == Hydrate(closure.parsed[1], me) IN
              /\ user' = Some(hydrated)
              /\ localStorage' =
                   IF quota THEN localStorage
                   ELSE [localStorage EXCEPT
                           !.user_data = Some(Stringify(hydrated))]
         ELSE /\ quota = FALSE
              /\ UNCHANGED <<user, localStorage>>
    /\ isLoading' = FALSE
    /\ initAuth' = "done"
    /\ UNCHANGED <<token, closure, loggedOut>>
    /\ UNCHANGED deployVars

\* login (lines 53-62): the first throwing statement jumps to the catch
Login ==
    /\ \E userData \in Users, authToken \in Tokens,
          thrown \in {"none", "first_setItem", "second_setItem"} :
         /\ localStorage' =
              CASE thrown = "first_setItem" -> localStorage
                [] thrown = "second_setItem" ->
                     [localStorage EXCEPT !.auth_token = Some(authToken)]
                [] thrown = "none" ->
                     [auth_token |-> Some(authToken),
                      user_data |-> Some(Stringify(userData))]
         /\ token' = IF thrown = "none" THEN Some(authToken) ELSE token
         /\ user' = IF thrown = "none" THEN Some(userData) ELSE user
    /\ loggedOut' = FALSE
    /\ UNCHANGED <<isLoading, initAuth, closure>>
    /\ UNCHANGED deployVars

\* logout (lines 65-70)
Logout ==
    /\ localStorage' = [auth_token |-> Null, user_data |-> Null]
    /\ token' = Null
    /\ user' = Null
    /\ loggedOut' = TRUE
    /\ UNCHANGED <<isLoading, initAuth, closure>>
    /\ UNCHANGED deployVars

\* isAuthenticated (lines 73-75)
isAuthenticated == token # Null /\ user # Null

AuthNext ==
    \/ InitAuthStart
    \/ InitAuthResume
    \/ Login
    \/ Logout

AuthSpec == AuthInit /\ [][AuthNext]_vars

TypeOK ==
    /\ pc \in {"check_prerequisites", "create_directories", "backup_current",
               "backup_ps", "backup_cp", "build_images", "deploy_down",
               "deploy_up", "deploy_sleep", "health_check", "cleanup",
               "cleanup_backups", "rollback", "show", "exited"}
    /\ exitCode \in Status
    /\ now \in 1..MaxClock
    /\ TreeClosed(dirs)
    /\ Ids(backups) \subseteq 1..now
    /\ Len(backups) = Cardinality(Ids(backups))

(***************************************************************************)
(* Properties                                                              *)
(***************************************************************************)
Cmds == { trace[i].cmd : i \in DOMAIN trace }

Ran(c) == c \in Cmds

Count(c) == Cardinality({ i \in DOMAIN trace : trace[i].cmd = c })

Failed(c) == \E i \in DOMAIN trace : trace[i].cmd = c /\ trace[i].rc # 0

Passed(c) == \E i \in DOMAIN trace : trace[i].cmd = c /\ trace[i].rc = 0

Min(a, b) == IF a < b THEN a ELSE b

\* the k largest ids of S
NewestById(S, k) == { x \in S : Cardinality({ y \in S : y > x }) < k }

Missing == ~tools.docker \/ ~tools.compose \/ ~files.env \/ ~files.compose

\* C1: when a required tool or file is missing, the run ends with exit 1
\* right after check_prerequisites: no other stage runs, and directories,
\* backups and the running stack are as they were before the run.
C1_PrereqGate ==
    Missing =>
      /\ Cmds \subseteq {"check_prerequisites"}
      /\ pc \in {"check_prerequisites", "exited"}
      /\ Ran("check_prerequisites") => pc = "exited" /\ exitCode = 1
      /\ dirs = pre.dirs
      /\ backups = pre.backups
      /\ stack = pre.stack
      /\ written = NothingWritten

C1_Witness ==
    /\ pc = "exited"
    /\ tools.docker /\ tools.compose /\ files.env /\ ~files.compose
    /\ Len(backups) > 0
    /\ stack = "old"

\* C2 (as stated): a run whose health verdict is unhealthy invokes the
\* rollback teardown exactly once, never cleanup, and exits with code 1.
C2_Original ==
    (pc = "exited" /\ verdict = "unhealthy") =>
      /\ Count("rollback_down") = 1
      /\ ~Ran("image_prune") /\ ~Ran("rm_backups")
      /\ exitCode = 1

CutoverFailed == Failed("down") \/ Failed("up")

\* C3 (as stated): a failing docker-compose down / up -d of the cutover is
\* followed by the rollback teardown before the run ends.
C3_Original ==
    (pc = "exited" /\ CutoverFailed) => Ran("rollback_down")

\* C3 (amended): a failing docker-compose down / up -d of the cutover ends
\* the run at once with that command's non-zero status; no settle wait, no
\* health probe and no rollback teardown follows.
C3_CutoverFailureAborts ==
    CutoverFailed =>
      /\ pc = "exited"
      /\ exitCode # 0
      /\ exitCode = trace[Len(trace)].rc
      /\ trace[Len(trace)].cmd \in {"down", "up"}
      /\ ~Ran("rollback_down") /\ ~Ran("sleep")
      /\ report = <<>> /\ verdict = "none"

C3_Witness ==
    /\ pc = "exited"
    /\ Passed("down") /\ Failed("up")
    /\ stack = "partial"

\* C4: a failing build ends the run as a failure; stop, start, settle,
\* health probes, teardown and cleanup never run and the stack is the one
\* that was there before the run.
C4_BuildFailureLeavesStack ==
    Failed("build") =>
      /\ pc = "exited"
      /\ exitCode # 0
      /\ Cmds \cap {"down", "up", "sleep", "rollback_down", "image_prune",
                    "rm_backups", "ps"} = {}
      /\ report = <<>> /\ verdict = "none"
      /\ stack = pre.stack

C4_Witness ==
    /\ pc = "exited"
    /\ Failed("build")
    /\ stack = "old"
    /\ written.env

\* C5 (as stated): a failure inside cleanup leaves a run whose health checks
\* all passed with exit code 0.
C5_Original ==
    (pc = "exited" /\ verdict = "healthy"
       /\ (Failed("image_prune") \/ Failed("rm_backups")))
      => exitCode = 0

\* C6 (as stated): when the rollback teardown fails after an unhealthy
\* verdict, the run still ends with exit code 1.
C6_Original ==
    (pc = "exited" /\ verdict = "unhealthy" /\ Failed("rollback_down"))
      => exitCode = 1

\* C7 (as stated): the exit code is 0 exactly when the run succeeded (every
\* stage passed and the health verdict is healthy) and exactly 1 otherwise.
C7_Original ==
    pc = "exited" =>
      /\ (exitCode = 0) <=> (verdict = "healthy")
      /\ verdict # "healthy" => exitCode = 1

BuildStarted == pc = "build_images" \/ Ran("build")

BackupFailed ==
    Failed("backup_mkdir") \/ Failed("backup_ps") \/ Failed("backup_cp")

\* C10: once the build stage has been started, the backup directory of this
\* run exists with the copied environment file; a failing backup command
\* ends the run before build, stop or start.
C10_BackupBeforeBuild ==
    /\ BuildStarted =>
         /\ BACKUP_NAME \in Ids(backups)
         /\ written.dir /\ written.env
    /\ BackupFailed =>
         /\ pc = "exited" /\ exitCode # 0
         /\ Cmds \cap {"build", "down", "up"} = {}

C10_Witness ==
    /\ Ran("build")
    /\ BACKUP_NAME \in Ids(backups)
    /\ written.ps /\ written.env
    /\ Len(backups) > 1

ReportedUnhealthy == { report[i].svc : i \in { j \in DOMAIN report : ~report[j].ok } }

\* C11 (as stated): a run that reaches health verification probes all three
\* endpoints whatever the earlier probes returned.
C11_Original ==
    verdict # "none" => { report[i].svc : i \in DOMAIN report } = Range(Services)

\* C11 (amended): health_check probes main-api, scraper-api, frontend in
\* this order and stops at the first unhealthy one: every probe before the
\* last reported one was healthy, so the report names at most one unhealthy
\* service, and all three are probed only when the first two are healthy.
C11_ProbesStopAtFirstFailure ==
    verdict # "none" =>
      /\ Len(report) \in 1..Len(Services)
      /\ \A i \in DOMAIN report : report[i].svc = Services[i]
      /\ \A i \in 1..(Len(report) - 1) : report[i].ok
      /\ Len(report) < Len(Services) => ~report[Len(report)].ok
      /\ Cardinality(ReportedUnhealthy) <= 1
      /\ \A i \in DOMAIN report :
           \E j \in DOMAIN trace : trace[j].cmd = "curl:" \o report[i].svc

C11_Witness ==
    /\ verdict = "unhealthy"
    /\ Len(report) = 1
    /\ ~Ran("curl:scraper-api") /\ ~Ran("curl:frontend")
    /\ Ran("rollback_down")

\* C12: the health verdict is unhealthy exactly when at least one of the
\* probes of the report is unhealthy.
C12_VerdictIsConjunction ==
    verdict # "none" =>
      /\ verdict \in {"healthy", "unhealthy"}
      /\ (verdict = "unhealthy") <=> (\E i \in DOMAIN report : ~report[i].ok)
      /\ (verdict = "healthy") <=>
           (Len(report) = Len(Services) /\ \A i \in DOMAIN report : report[i].ok)

C12_Witness ==
    /\ verdict = "unhealthy"
    /\ Len(report) = 3
    /\ report[1].ok /\ report[2].ok /\ ~report[3].ok

\* C13 (as stated): after a run that ends in rollback because of a failed
\* health check no stack is running, start is not invoked after the
\* teardown and the previous stack is not restored.
C13_Original ==
    (pc = "exited" /\ verdict = "unhealthy") =>
      /\ stack = "none"
      /\ trace[Len(trace)].cmd = "rollback_down"
      /\ Count("up") = 1

\* C13 (amended): after a run that ends in rollback because of a failed
\* health check, start is not invoked after the teardown and the previous
\* stack is not restored; no stack is running when the teardown command
\* succeeded (a failing teardown may leave the new stack up or half stopped).
C13_RollbackOnlyTearsDown ==
    (pc = "exited" /\ verdict = "unhealthy") =>
      /\ trace[Len(trace)].cmd = "rollback_down"
      /\ Count("up") = 1 /\ Count("rollback_down") = 1
      /\ stack # "old"
      /\ Passed("rollback_down") => stack = "none"
      /\ backups = Touch(MkBackupDir(pre.backups, BACKUP_NAME), BACKUP_NAME)

C13_Witness ==
    /\ pc = "exited" /\ verdict = "unhealthy"
    /\ Passed("rollback_down")
    /\ pre.stack = "old"
    /\ stack = "none"

\* C14: create_directories never removes a directory or a backup, leaves
\* all five targets (with their parents) in place when it succeeds, changes
\* nothing when run again on its own result, and cannot fail when the
\* directories already exist.
C14_MkdirIdempotent ==
    [][ pc = "create_directories" =>
          /\ dirs \subseteq dirs'
          /\ backups' = backups
          /\ pc' = "backup_current" =>
               /\ Range(DirTargets) \subseteq dirs'
               /\ TreeClosed(dirs')
               /\ MkdirAll(dirs', DirTargets, Len(DirTargets)) = dirs'
          /\ Range(DirTargets) \subseteq dirs =>
               /\ pc' = "backup_current"
               /\ dirs' = dirs ]_vars

C14_Witness ==
    /\ pc = "backup_current"
    /\ Range(DirTargets) \subseteq pre.dirs
    /\ dirs = pre.dirs
    /\ Len(backups) > 0

\* position of a command in the fixed order of main
CmdOrder ==
    << {"check_prerequisites"}, {"create_directories"}, {"backup_mkdir"},
       {"backup_ps"}, {"backup_cp"}, {"build"}, {"down"}, {"up"}, {"sleep"},
       {"curl:main-api"}, {"curl:scraper-api"}, {"curl:frontend"},
       {"image_prune", "rollback_down"}, {"rm_backups"}, {"ps"} >>

CmdIndex(c) == CHOOSE n \in DOMAIN CmdOrder : c \in CmdOrder[n]

IsCurl(c) == \E i \in DOMAIN Services : c = "curl:" \o Services[i]

\* C15: within one invocation the commands run in the fixed order checker,
\* preparer, backup, builder, stop, start, settle, health probes, then either
\* cleanup or rollback (never both), each at most once; a command runs only
\* after every earlier one succeeded (the rollback after a failed probe),
\* and once the script has exited nothing more runs in that invocation.
C15_StageOrder ==
    /\ \A i, j \in DOMAIN trace :
         i < j => CmdIndex(trace[i].cmd) < CmdIndex(trace[j].cmd)
    /\ \A i \in 1..(Len(trace) - 1) :
         \/ trace[i].rc = 0
         \/ IsCurl(trace[i].cmd) /\ trace[i + 1].cmd = "rollback_down"
    /\ Ran("image_prune") => verdict = "healthy"
    /\ Ran("rollback_down") => verdict = "unhealthy"
    /\ ~(Ran("image_prune") /\ Ran("rollback_down"))
    /\ Ran("build") => Passed("backup_mkdir") /\ Passed("create_directories")
    /\ pc = "exited" =>
         /\ trace # <<>>
         /\ \/ trace[Len(trace)].rc # 0
            \/ trace[Len(trace)].cmd \in {"ps", "rollback_down"}

C15_Witness ==
    /\ pc = "exited" /\ exitCode = 0
    /\ Len(trace) = 15
    /\ Ran("backup_ps") /\ Ran("rm_backups")

\* C16: no health probe is issued before the sleep that follows a
\* successful up -d, which follows a successful down.
C16_SettleBeforeProbe ==
    /\ pc = "health_check" => Ran("sleep")
    /\ \A j \in DOMAIN trace :
         IsCurl(trace[j].cmd) =>
           \E g, h, i \in 1..(j - 1) :
             /\ g < h /\ h < i
             /\ trace[g] = Ev("down", 0)
             /\ trace[h] = Ev("up", 0)
             /\ trace[i] = Ev("sleep", 0)

C16_Witness ==
    /\ Ran("curl:main-api")
    /\ Ran("sleep")
    /\ stack = "new"

\* C17: when every command eventually returns, an invocation eventually
\* exits and stays exited, whatever succeeds or fails on the way.
C17_Terminates == <>[](pc = "exited")

C17_Witness ==
    /\ pc = "exited"
    /\ verdict = "healthy"
    /\ Passed("ps")
    /\ exitCode = 0

\* C18 (as stated): the backup step of every run takes an id strictly
\* greater than the id of every backup that exists, and leaves the existing
\* backup directories as they are.
C18_Original ==
    [][ (pc = "backup_current" /\ pc' = "backup_ps") =>
          /\ \A x \in Ids(backups) : BACKUP_NAME' > x
          /\ backups' = Append(backups, BACKUP_NAME') ]_vars

\* C20 (as stated): after logout() and until the next login(), the user is
\* null and localStorage has no 'user_data'.
C20_Original ==
    loggedOut => user = Null /\ localStorage.user_data = Null

\* C21 (as stated): a call of login either updates both localStorage keys
\* and both in-memory fields to the new values, or changes none of the four.
C21_Original ==
    [][ (initAuth' = initAuth /\ ~loggedOut') =>
          \/ UNCHANGED <<localStorage, token, user>>
          \/ \E u \in Users, t \in Tokens :
               /\ localStorage' = [auth_token |-> Some(t),
                                   user_data |-> Some(Stringify(u))]
               /\ token' = Some(t)
               /\ user' = Some(u) ]_vars

====
